---------------------------- MODULE Spec2Model ----------------------------
(***************************************************************************)
(* A model of the VHDL type calculation and type checking of moore:        *)
(*   src/src/vhdl/typeck.rs     TypeckContext, the Typeck dispatch and the *)
(*                              type rules (impl_make!) of ScoreContext    *)
(*   src/src/vhdl/ty2/arena.rs  TypeArena and alloc_owned                  *)
(*                                                                         *)
(* A node id is modelled by the record of what the lowering service        *)
(* returns for it (its hir), so that the set of all ids of a kind is the   *)
(* set of all inputs of that kind.  Field n names the kind of the id and   *)
(* field ok says whether hir(id) is Ok.  The only ids that are names are   *)
(* the subtype declarations of kind "SubtypeDeclCyc", whose type marks     *)
(* lead back to themselves.                                                *)
(***************************************************************************)
EXTENDS Integers, Sequences, FiniteSets, TLC

VARIABLES
    failed,     \* TypeckContext.failed
    diags,      \* the diagnostics emitted to ctx.sess since TypeckContext::new
    pc,         \* "open": the context exists; "finished": finish() consumed it
    result,     \* what finish() returned
    last,       \* the last operation on the context: [op, id, eff]
    nops,       \* the number of operations on the context since new
    mk,         \* the last type computation: [op, id, res]
    dpc,        \* deref_named_type: "idle", "run" (a call is active), "ret"
    darg,       \* deref_named_type: the argument of the outermost call
    dty,        \* deref_named_type: the argument of the active call
    dres,       \* deref_named_type: what the outermost call returned
    arena,      \* TypeArena: one sequence of nodes per typed arena
    aref,       \* the last alloc_owned: [op, value, ref]
    ncalls      \* the number of alloc_owned calls on the arena

vars ==
    <<failed, diags, pc, result, last, nops, mk, dpc, darg, dty, dres, arena, aref, ncalls>>

sessionVars == <<failed, diags, pc, result, last, nops>>
derefVars == <<dpc, darg, dty, dres>>
arenaVars == <<arena, aref, ncalls>>

-----------------------------------------------------------------------------
(* Bounds of the model *)

\* integer bounds of ranges are drawn from 0..MaxVal
MaxVal == 3
\* the longest chain of unconstrained subtype declarations over a type
MaxChain == 2
\* the longest cycle of subtype declarations naming each other
MaxCycle == 2
\* the most index positions of an array type declaration
MaxIdx == 2
\* the most children of a checked unit
MaxSibs == 2
\* the most operations on one checking context
MaxOps == 2

Vals == 0..MaxVal
\* the bounds of the integer base types: strictly inside Vals, so that a
\* constraint can lie below and above a base
BaseVals == 1..(MaxVal - 1)
Dirs == {"to", "downto"}

-----------------------------------------------------------------------------
(* Diagnostics *)

\* moore_common::errors::Severity, in its declared order
SevRank(sev) ==
    CASE sev = "Note" -> 0
      [] sev = "Warning" -> 1
      [] sev = "Error" -> 2
      [] sev = "Fatal" -> 3
      [] sev = "Bug" -> 4

Severities == {"Note", "Warning", "Error", "Fatal", "Bug"}

DiagBuilder2(sev, msg) == [severity |-> sev, msg |-> msg]

IsError(d) == SevRank(d.severity) >= SevRank("Error")

RECURSIVE CountErrors(_)
CountErrors(ds) ==
    IF ds = <<>> THEN 0
    ELSE (IF IsError(Head(ds)) THEN 1 ELSE 0) + CountErrors(Tail(ds))

RECURSIVE CountMsg(_, _)
CountMsg(ds, msg) ==
    IF ds = <<>> THEN 0
    ELSE (IF Head(ds).msg = msg THEN 1 ELSE 0) + CountMsg(Tail(ds), msg)

-----------------------------------------------------------------------------
(* Results of the score board's queries: moore_common::score::Result<T>.   *)
(* st is "ok" (Ok(v)), "err" (Err(())) or "hang" (the query does not       *)
(* return); diags are the diagnostics the query emitted through            *)
(* ScoreContext::emit and calls are the queries it made, in order.         *)

Ok(v) == [st |-> "ok", v |-> v, diags |-> <<>>, calls |-> <<>>]
Err == [st |-> "err", v |-> "none", diags |-> <<>>, calls |-> <<>>]
Hang == [st |-> "hang", v |-> "none", diags |-> <<>>, calls |-> <<>>]

\* self.emit(diag); return Err(())
EmitErr(d) == [st |-> "err", v |-> "none", diags |-> <<d>>, calls |-> <<>>]

\* F applied to the value of e
Let(e, F(_)) == CHOOSE out \in {F(x) : x \in {e}} : TRUE

\* r computed after prev: what prev emitted and called comes first
After(prev, r) ==
    Let(prev, LAMBDA p : [r EXCEPT !.diags = p.diags \o @, !.calls = p.calls \o @])

\* let x = r?; K(x.v): when r is not Ok the rule returns what r returned
Try(r, K(_)) ==
    Let(r, LAMBDA x : IF x.st /= "ok" THEN x ELSE After(x, K(x.v)))

Call(svc, id) == [svc |-> svc, id |-> id]

Called(r, svc, id) == \E i \in 1..Len(r.calls) : r.calls[i] = Call(svc, id)

-----------------------------------------------------------------------------
(* Types: ty::Ty *)

Named(tm) == [k |-> "Named", tm |-> tm]
IntTy(dir, lb, rb) == [k |-> "Int", dir |-> dir, left_bound |-> lb, right_bound |-> rb]
EnumTy(id) == [k |-> "Enum", decl |-> id]
AccessTy(t) == [k |-> "Access", ty |-> t]
ArrayTy(indices, elem) == [k |-> "Array", indices |-> indices, elem |-> elem]

\* Whether a range holds no value
IsNullRange(dir, lb, rb) == IF dir = "to" THEN lb > rb ELSE lb < rb

\* IntTy::maybe_null: the range is kept whether or not it is empty, and its
\* emptiness is tracked
maybe_null(t) ==
    [k |-> "Int", dir |-> t.dir, left_bound |-> t.left_bound,
     right_bound |-> t.right_bound,
     null |-> IsNullRange(t.dir, t.left_bound, t.right_bound)]

\* ScoreContext::intern_ty: the interned type is the value
intern_ty(t) == t

-----------------------------------------------------------------------------
(* Node ids.  Each constructor builds the id of a node from its lowered    *)
(* representation.                                                         *)

\* An expression as the constant evaluation sees it: konst is its value
ConstExpr(konst) == [n |-> "Expr", ok |-> TRUE, data |-> "Const", konst |-> konst]
KInt(v) == [c |-> "Int", value |-> v]
KFloat == [c |-> "Float"]
KIntRange(dir, lb, rb) ==
    [c |-> "IntRange", dir |-> dir, left_bound |-> lb, right_bound |-> rb]
KErr == [c |-> "Err"]

TypeMarkRef(variant, id) == [n |-> "TypeMark", variant |-> variant, id |-> id]

\* hir::SubtypeInd: a type mark and an optional constraint
SubtypeInd(mark, con) ==
    [n |-> "SubtypeInd", ok |-> TRUE, type_mark |-> mark, constraint |-> con]
NoConstraint == [c |-> "None"]
ConRange(expr) == [c |-> "Range", expr |-> expr]
ConRange2(dir, lb, rb) == [c |-> "Range2", dir |-> dir, lb |-> lb, rb |-> rb]
ConArray == [c |-> "Array"]
ConRecord == [c |-> "Record"]

\* hir::SubtypeDecl
SubtypeDecl(subty) == [n |-> "SubtypeDecl", ok |-> TRUE, subty |-> subty]
\* the i-th subtype declaration of a cycle of len declarations, each declared
\* as the one after it
SubtypeDeclCyc(len, i) == [n |-> "SubtypeDeclCyc", len |-> len, i |-> i]

\* hir::TypeDecl and its hir::TypeData
TypeDecl(data) == [n |-> "TypeDecl", ok |-> TRUE, data |-> data]
DataNone == [d |-> "None"]
DataRange(dir, lb, rb) == [d |-> "Range", dir |-> dir, lb |-> lb, rb |-> rb]
DataEnum == [d |-> "Enum"]
DataAccess(subty) == [d |-> "Access", subty |-> subty]
DataArray(index_ids, elem) == [d |-> "Array", index_ids |-> index_ids, elem |-> elem]

\* hir::ArrayTypeIndex
IndexUnbounded(tm) == [n |-> "ArrayTypeIndex", ok |-> TRUE, value |-> "Unbounded", tm |-> tm]
IndexSubtype(subty) == [n |-> "ArrayTypeIndex", ok |-> TRUE, value |-> "Subtype", subty |-> subty]
IndexRange(dir, lb, rb) ==
    [n |-> "ArrayTypeIndex", ok |-> TRUE, value |-> "Range", dir |-> dir, lb |-> lb, rb |-> rb]

\* hir::SignalDecl, hir::IntfSignal and SignalRef
SignalDecl(subty) == [n |-> "SignalDecl", ok |-> TRUE, subty |-> subty]
IntfSignal(ty) == [n |-> "IntfSignal", ok |-> TRUE, ty |-> ty]
SignalRef(variant, id) == [n |-> "Signal", variant |-> variant, id |-> id]
TypedNodeRef(variant, id) == [n |-> "TypedNode", variant |-> variant, id |-> id]

\* hir::Expr: ty is the type attached to a literal (<<>> or <<ty>>) and ctx
\* is what type_context_resolved answers for the expression: "err", or "ok"
\* with the expected type (<<>> or <<ty>>)
Expr(data, ty, ctx) == [n |-> "Expr", ok |-> TRUE, data |-> data, ty |-> ty, ctx |-> ctx]
CtxErr == [st |-> "err", ty |-> <<>>]
CtxNone == [st |-> "ok", ty |-> <<>>]
CtxSome(t) == [st |-> "ok", ty |-> <<t>>]

\* a node of kind n that the lowering service has no hir for
Lost(n) == [n |-> n, ok |-> FALSE]

-----------------------------------------------------------------------------
(* The services of the score board that the type rules call.  A query that *)
(* fails has reported its failure to the session before it returns         *)
(* Err(()), which carries nothing.                                         *)

ServiceErr(svc, id) ==
    [st |-> "err", v |-> "none",
     diags |-> <<DiagBuilder2("Error", svc)>>, calls |-> <<Call(svc, id)>>]
ServiceOk(svc, id, v) ==
    [st |-> "ok", v |-> v, diags |-> <<>>, calls |-> <<Call(svc, id)>>]

\* ScoreContext::hir (and existing_hir): the lowered representation of id
hir(id) ==
    IF id.n = "SubtypeDeclCyc"
    THEN ServiceOk("hir", id,
            [subty |-> SubtypeInd(
                TypeMarkRef("Subtype", SubtypeDeclCyc(id.len, (id.i % id.len) + 1)),
                NoConstraint)])
    ELSE IF id.ok THEN ServiceOk("hir", id, id) ELSE ServiceErr("hir", id)

\* ScoreContext::const_value: the constant an expression evaluates to
const_value(id) ==
    IF id.ok /\ id.data = "Const" /\ id.konst.c /= "Err"
    THEN ServiceOk("const_value", id, id.konst)
    ELSE ServiceErr("const_value", id)

\* ScoreContext::type_context_resolved: the type expected of an expression
type_context_resolved(id) ==
    IF id.ctx.st = "ok"
    THEN ServiceOk("type_context_resolved", id, id.ctx.ty)
    ELSE ServiceErr("type_context_resolved", id)

-----------------------------------------------------------------------------
(* The type rules: NodeMaker<I, &Ty> for ScoreContext (impl_make!)         *)

\* A recursion of deref_named_type deeper than every chain of the model has
\* come back to a declaration it has left: it does not return.
DerefDepth == MaxChain + MaxCycle + 2

RECURSIVE make(_), deref_fuel(_, _), ArrayIndices(_, _, _, _)

\* ScoreContext::ty: the type of a node, computed by its rule
ty(id) == After([Ok("none") EXCEPT !.calls = <<Call("ty", id)>>], make(id))

\* fn deref_named_type: replace Ty::Named by the actual type definition,
\* recursively; fuel counts the recursion depth that is left
deref_fuel(t, fuel) ==
    IF t.k = "Named"
    THEN IF fuel = 0 THEN Hang
         ELSE Try(ty(t.tm), LAMBDA inner : deref_fuel(inner, fuel - 1))
    ELSE Ok(t)

deref_named_type(t) == deref_fuel(t, DerefDepth)

\* The subrange test of a range constraint (typeck.rs 536 and 580): TRUE when
\* the constraint is refused
NotSubrange(inner, dir, lb, rb) ==
    \/ inner.dir /= dir
    \/ inner.left_bound > lb
    \/ inner.right_bound < rb

\* fn make_range_ty
make_range_ty(dir, lb_id, rb_id) ==
    Try(const_value(lb_id), LAMBDA lb :
    Try(const_value(rb_id), LAMBDA rb :
        IF lb.c = "Int" /\ rb.c = "Int"
        THEN Ok(intern_ty(maybe_null(IntTy(dir, lb.value, rb.value))))
        ELSE IF lb.c = "Float" /\ rb.c = "Float"
        THEN EmitErr(DiagBuilder2("Error", "Float range bounds not yet supported"))
        ELSE EmitErr(DiagBuilder2("Error", "Bounds of range are not of the same type"))))

\* impl_make TypeMarkRef
MakeTypeMarkRef(id) == make(id.id)

\* impl_make SubtypeIndRef, Constraint::Range
SubtypeIndRange(h) ==
    Try(ty(h.type_mark), LAMBDA tm :
    Try(deref_named_type(tm), LAMBDA inner :
        IF inner.k = "Int"
        THEN Try(const_value(h.constraint.expr), LAMBDA range :
                IF range.c /= "IntRange"
                THEN EmitErr(DiagBuilder2("Error", "used to constrain integer type"))
                ELSE IF NotSubrange(inner, range.dir, range.left_bound, range.right_bound)
                THEN EmitErr(DiagBuilder2("Error", "is not a subrange of"))
                ELSE Ok(intern_ty(maybe_null(
                        IntTy(inner.dir, range.left_bound, range.right_bound)))))
        ELSE EmitErr(DiagBuilder2("Error", "cannot be constrained by range"))))

\* impl_make SubtypeIndRef, Constraint::Range2
SubtypeIndRange2(h) ==
    Try(const_value(h.constraint.lb), LAMBDA lb :
    Try(const_value(h.constraint.rb), LAMBDA rb :
    Try(ty(h.type_mark), LAMBDA tm :
    Try(deref_named_type(tm), LAMBDA inner :
        IF inner.k = "Int"
        THEN IF ~(lb.c = "Int" /\ rb.c = "Int")
             THEN EmitErr(DiagBuilder2("Error",
                      "non-integer range cannot constrain an integer type"))
             ELSE IF NotSubrange(inner, h.constraint.dir, lb.value, rb.value)
             THEN EmitErr(DiagBuilder2("Error", "is not a subrange of"))
             ELSE Ok(intern_ty(maybe_null(IntTy(inner.dir, lb.value, rb.value))))
        ELSE EmitErr(DiagBuilder2("Error", "cannot be constrained by range"))))))

\* impl_make SubtypeIndRef
MakeSubtypeIndRef(id) ==
    Try(hir(id), LAMBDA h :
        CASE h.constraint.c = "None" -> Ok(intern_ty(Named(h.type_mark)))
          [] h.constraint.c = "Range" -> SubtypeIndRange(h)
          [] h.constraint.c = "Range2" -> SubtypeIndRange2(h)
          [] h.constraint.c = "Array" ->
                EmitErr(DiagBuilder2("Error",
                    "Array constraints on subtypes not yet supported"))
          [] h.constraint.c = "Record" ->
                EmitErr(DiagBuilder2("Error",
                    "Record constraints on subtypes not yet supported")))

\* the type of one index position (typeck.rs 661-673)
ArrayIndex(h) ==
    CASE h.value = "Unbounded" ->
            Try(ty(h.tm), LAMBDA t : Ok([i |-> "Unbounded", ty |-> t]))
      [] h.value = "Subtype" ->
            Try(ty(h.subty), LAMBDA t : Ok([i |-> "Constrained", ty |-> t]))
      [] h.value = "Range" ->
            Try(make_range_ty(h.dir, h.lb, h.rb),
                LAMBDA t : Ok([i |-> "Constrained", ty |-> t]))

\* The loop over the index positions of an array type declaration (typeck.rs
\* 654-674), from position i on, with had_fails and indices as they are
\* before position i.  Ok(v) is the end of the loop with v.had_fails and
\* v.indices; Err is a ? that left the rule.
ArrayIndices(index_ids, i, had_fails, indices) ==
    IF i > Len(index_ids)
    THEN Ok([had_fails |-> had_fails, indices |-> indices])
    ELSE Let(hir(index_ids[i]), LAMBDA h :
            IF h.st /= "ok"
            THEN \* Err(()) => { had_fails = true; continue; }
                 After(h, ArrayIndices(index_ids, i + 1, TRUE, indices))
            ELSE After(h, Try(ArrayIndex(h.v), LAMBDA index :
                     ArrayIndices(index_ids, i + 1, had_fails, Append(indices, index)))))

\* impl_make TypeDeclRef, TypeData::Array
TypeDeclArray(data) ==
    Try(ArrayIndices(data.index_ids, 1, FALSE, <<>>), LAMBDA loop :
        IF loop.had_fails THEN Err
        ELSE Try(ty(data.elem), LAMBDA elem_ty :
                Ok(intern_ty(ArrayTy(loop.indices, elem_ty)))))

\* impl_make TypeDeclRef
MakeTypeDeclRef(id) ==
    Try(hir(id), LAMBDA h :
        CASE h.data.d = "None" ->
                EmitErr(DiagBuilder2("Error", "Declaration of type is incomplete"))
          [] h.data.d = "Range" -> make_range_ty(h.data.dir, h.data.lb, h.data.rb)
          [] h.data.d = "Enum" -> Ok(intern_ty(EnumTy(id)))
          [] h.data.d = "Access" ->
                Try(ty(h.data.subty), LAMBDA t : Ok(intern_ty(AccessTy(t))))
          [] h.data.d = "Array" -> TypeDeclArray(h.data))

\* impl_make SubtypeDeclRef
MakeSubtypeDeclRef(id) == Try(hir(id), LAMBDA h : ty(h.subty))

\* impl_make SignalDeclRef
MakeSignalDeclRef(id) == Try(hir(id), LAMBDA h : ty(h.subty))

\* impl_make IntfSignalRef
MakeIntfSignalRef(id) == Try(hir(id), LAMBDA h : ty(h.ty))

\* ExprIntegerLiteral with the dereferenced type of the context as its result
ExprIntegerLiteralDeref(id, h) ==
    IF h.ty /= <<>> THEN Ok(intern_ty(h.ty[1]))
    ELSE Try(type_context_resolved(id), LAMBDA ctx :
            IF ctx = <<>>
            THEN EmitErr(DiagBuilder2("Error", "cannot infer type from context"))
            ELSE Try(deref_named_type(ctx[1]), LAMBDA inner :
                    IF inner.k = "Int" THEN Ok(inner)
                    ELSE EmitErr(DiagBuilder2("Error", "cannot infer type from context"))))

\* impl_make ExprRef, ExprData::IntegerLiteral
ExprIntegerLiteral(id, h) ==
    IF h.ty /= <<>> THEN Ok(intern_ty(h.ty[1]))
    ELSE Try(type_context_resolved(id), LAMBDA ctx :
            IF ctx = <<>>
            THEN EmitErr(DiagBuilder2("Error", "cannot infer type from context"))
            ELSE Try(deref_named_type(ctx[1]), LAMBDA inner :
                    IF inner.k = "Int" THEN Ok(ctx[1])
                    ELSE EmitErr(DiagBuilder2("Error", "cannot infer type from context"))))

\* unimp_err!
unimp_err == EmitErr(DiagBuilder2("Bug", "not implemented"))

\* impl_make ExprRef
MakeExprRef(id) ==
    Try(hir(id), LAMBDA h :
        CASE h.data = "IntegerLiteral" -> ExprIntegerLiteral(id, h)
          [] h.data = "FloatLiteral" -> unimp_err
          [] OTHER -> unimp_err)

\* impl_make TypedNodeRef and SignalRef
MakeTypedNodeRef(id) == make(id.id)
MakeSignalRef(id) == make(id.id)

\* NodeMaker::make, by the kind of the id
make(id) ==
    CASE id.n = "TypeMark" -> MakeTypeMarkRef(id)
      [] id.n = "SubtypeInd" -> MakeSubtypeIndRef(id)
      [] id.n = "TypeDecl" -> MakeTypeDeclRef(id)
      [] id.n \in {"SubtypeDecl", "SubtypeDeclCyc"} -> MakeSubtypeDeclRef(id)
      [] id.n = "SignalDecl" -> MakeSignalDeclRef(id)
      [] id.n = "IntfSignal" -> MakeIntfSignalRef(id)
      [] id.n = "Expr" -> MakeExprRef(id)
      [] id.n = "TypedNode" -> MakeTypedNodeRef(id)
      [] id.n = "Signal" -> MakeSignalRef(id)

-----------------------------------------------------------------------------
(* The ids the type rules are applied to *)

BoundExprs == {ConstExpr(KInt(v)) : v \in Vals} \cup {ConstExpr(KFloat), ConstExpr(KErr)}

RangeExprs ==
    {ConstExpr(KIntRange(dir, lb, rb)) : dir \in Dirs, lb \in Vals, rb \in Vals}
    \cup {ConstExpr(KInt(0)), ConstExpr(KFloat), ConstExpr(KErr)}

\* type T is range lb to|downto rb
IntBase(dir, lb, rb) == TypeDecl(DataRange(dir, ConstExpr(KInt(lb)), ConstExpr(KInt(rb))))

IntBases == {IntBase(dir, lb, rb) : dir \in Dirs, lb \in BaseVals, rb \in BaseVals}

OtherDecls ==
    {TypeDecl(DataEnum), TypeDecl(DataNone), Lost("TypeDecl"),
     TypeDecl(DataRange("to", ConstExpr(KFloat), ConstExpr(KFloat))),
     TypeDecl(DataRange("to", ConstExpr(KInt(0)), ConstExpr(KFloat)))}

\* subtype S is M: the mark of a subtype declared as the mark m, unconstrained
Alias(m) == TypeMarkRef("Subtype", SubtypeDecl(SubtypeInd(m, NoConstraint)))

RECURSIVE Aliases(_, _)
\* the marks of ms and their aliases, to k levels
Aliases(ms, k) == IF k = 0 THEN ms ELSE ms \cup {Alias(m) : m \in Aliases(ms, k - 1)}

CycMarks ==
    UNION {{TypeMarkRef("Subtype", SubtypeDeclCyc(len, i)) : i \in 1..len} :
              len \in 1..MaxCycle}

GoodMark == TypeMarkRef("Type", IntBase("to", 1, MaxVal - 1))
BadMark == TypeMarkRef("Type", TypeDecl(DataNone))

TypeMarks ==
    Aliases({TypeMarkRef("Type", d) : d \in IntBases \cup OtherDecls}, MaxChain)
    \cup CycMarks
    \cup {TypeMarkRef("Subtype", Lost("SubtypeDecl")),
          TypeMarkRef("Subtype", SubtypeDecl(SubtypeInd(GoodMark,
              ConRange2("to", ConstExpr(KInt(1)), ConstExpr(KInt(1))))))}

Constraints ==
    {NoConstraint, ConArray, ConRecord}
    \cup {ConRange(e) : e \in RangeExprs}
    \cup {ConRange2(dir, lb, rb) : dir \in Dirs, lb \in BoundExprs, rb \in BoundExprs}

SubtypeInds ==
    {SubtypeInd(m, c) : m \in TypeMarks, c \in Constraints} \cup {Lost("SubtypeInd")}

GoodSubty == SubtypeInd(GoodMark, NoConstraint)

\* the index positions of the array type declarations: one that has no hir,
\* and a valid and an invalid one of each form
IndexNodes ==
    {Lost("ArrayTypeIndex"),
     IndexUnbounded(GoodMark), IndexUnbounded(BadMark),
     IndexSubtype(GoodSubty), IndexSubtype(SubtypeInd(GoodMark, ConArray)),
     IndexRange("to", ConstExpr(KInt(0)), ConstExpr(KInt(1))),
     IndexRange("to", ConstExpr(KFloat), ConstExpr(KFloat)),
     IndexRange("to", ConstExpr(KInt(0)), ConstExpr(KFloat))}

IndexLists == UNION {[1..len -> IndexNodes] : len \in 1..MaxIdx}

ArrayDecls ==
    {TypeDecl(DataArray(ix, el)) :
        ix \in IndexLists, el \in {GoodSubty, SubtypeInd(GoodMark, ConRecord)}}

AccessDecls ==
    {TypeDecl(DataAccess(s)) :
        s \in {GoodSubty, SubtypeInd(BadMark, NoConstraint), SubtypeInd(GoodMark, ConArray),
               Lost("SubtypeInd")}}

TypeDecls == IntBases \cup OtherDecls \cup ArrayDecls \cup AccessDecls

IntT == maybe_null(IntTy("to", 1, MaxVal - 1))
EnumT == EnumTy(TypeDecl(DataEnum))

\* the types a context can expect of an expression
CtxTypes == {IntT, EnumT} \cup {Named(m) : m \in TypeMarks}

Exprs ==
    {Expr(data, t, ctx) :
        data \in {"IntegerLiteral", "FloatLiteral", "Other"},
        t \in {<<>>, <<IntT>>, <<EnumT>>},
        ctx \in {CtxErr, CtxNone} \cup {CtxSome(c) : c \in CtxTypes}}
    \cup {Lost("Expr")}

SignalSubtys ==
    {GoodSubty, SubtypeInd(TypeMarkRef("Type", TypeDecl(DataEnum)), NoConstraint),
     SubtypeInd(GoodMark, ConRange2("to", ConstExpr(KInt(0)), ConstExpr(KInt(1)))),
     SubtypeInd(GoodMark, ConRange2("to", ConstExpr(KInt(1)), ConstExpr(KInt(1)))),
     Lost("SubtypeInd")}

Signals ==
    {SignalRef("Decl", SignalDecl(s)) : s \in SignalSubtys}
    \cup {SignalRef("Intf", IntfSignal(s)) : s \in SignalSubtys}
    \cup {SignalRef("Decl", Lost("SignalDecl")), SignalRef("Intf", Lost("IntfSignal"))}

-----------------------------------------------------------------------------
(* Initial values of the parts of the state *)

NoOp == [op |-> "none"]

SessionInit ==
    /\ failed = FALSE
    /\ diags = <<>>
    /\ pc = "open"
    /\ result = TRUE
    /\ last = NoOp
    /\ nops = 0

MakeInit == mk = NoOp

DerefInit ==
    /\ dpc = "idle"
    /\ darg = IntT
    /\ dty = IntT
    /\ dres = Ok(IntT)

ArenaFields ==
    {"integer_basetype", "integer_subtype", "floating_basetype", "floating_subtype",
     "enum_basetype", "enum_subtype", "physical_basetype", "physical_subtype", "access"}

ArenaInit ==
    /\ arena = [f \in ArenaFields |-> <<>>]
    /\ aref = NoOp
    /\ ncalls = 0

Init == SessionInit /\ MakeInit /\ DerefInit /\ ArenaInit

-----------------------------------------------------------------------------
(* Type computations: a client asks ScoreContext for the type of a node    *)

\* One query is followed from the initial state: the rules keep no state of
\* their own between two queries.
Computed(id) ==
    /\ mk = NoOp
    /\ mk' = [op |-> "make", id |-> id, res |-> make(id)]

MakeSubtypeInd ==
    /\ \E id \in SubtypeInds : Computed(id)
    /\ UNCHANGED <<sessionVars, derefVars, arenaVars>>

MakeTypeDecl ==
    /\ \E id \in TypeDecls : Computed(id)
    /\ UNCHANGED <<sessionVars, derefVars, arenaVars>>

MakeExpr ==
    /\ \E id \in Exprs : Computed(id)
    /\ UNCHANGED <<sessionVars, derefVars, arenaVars>>

MakeSignal ==
    /\ \E id \in Signals : Computed(id)
    /\ UNCHANGED <<sessionVars, derefVars, arenaVars>>

MakeNext == MakeSubtypeInd \/ MakeTypeDecl \/ MakeExpr \/ MakeSignal

MakeSpec == Init /\ [][MakeNext]_vars

-----------------------------------------------------------------------------
(* Properties of the type rules, checked under MakeSpec *)

\* the low and the high end of a range written lb dir rb
Lo(dir, lb, rb) == IF dir = "to" THEN lb ELSE rb
Hi(dir, lb, rb) == IF dir = "to" THEN rb ELSE lb

\* the type a type mark dereferences to
MarkType(tm) ==
    LET t == ty(tm) IN IF t.st /= "ok" THEN t ELSE deref_named_type(t.v)

\* the computed node is a subtype indication with a range constraint, in
\* either form, whose bounds are integers
IsIntRangeCon(con) ==
    \/ con.c = "Range" /\ con.expr.konst.c = "IntRange"
    \/ con.c = "Range2" /\ con.lb.konst.c = "Int" /\ con.rb.konst.c = "Int"

ConDir(con) == IF con.c = "Range" THEN con.expr.konst.dir ELSE con.dir
ConLeft(con) == IF con.c = "Range" THEN con.expr.konst.left_bound ELSE con.lb.konst.value
ConRight(con) == IF con.c = "Range" THEN con.expr.konst.right_bound ELSE con.rb.konst.value

\* a range constraint with integer bounds over a mark that dereferences to a
\* non-empty integer type was computed
RangeOverInt ==
    /\ mk.op = "make"
    /\ mk.id.n = "SubtypeInd" /\ mk.id.ok
    /\ IsIntRangeCon(mk.id.constraint)
    /\ MarkType(mk.id.type_mark).st = "ok"
    /\ MarkType(mk.id.type_mark).v.k = "Int"
    /\ ~MarkType(mk.id.type_mark).v.null

\* what C4 says of one computation, for the base directions in dirs
SubrangeRule(dirs) ==
    RangeOverInt /\ MarkType(mk.id.type_mark).v.dir \in dirs =>
        LET base == MarkType(mk.id.type_mark).v
            con == mk.id.constraint
            A == Lo(base.dir, base.left_bound, base.right_bound)
            B == Hi(base.dir, base.left_bound, base.right_bound)
            lo == Lo(ConDir(con), ConLeft(con), ConRight(con))
            hi == Hi(ConDir(con), ConLeft(con), ConRight(con))
        IN  /\ (ConDir(con) = base.dir /\ A <= lo /\ lo <= hi /\ hi <= B) =>
                /\ mk.res.st = "ok"
                /\ mk.res.v.k = "Int"
                /\ mk.res.v.dir = base.dir
                /\ mk.res.v.left_bound = ConLeft(con)
                /\ mk.res.v.right_bound = ConRight(con)
            /\ (lo < A \/ hi > B \/ ConDir(con) /= base.dir) =>
                /\ mk.res.st = "err"
                /\ CountErrors(mk.res.diags) = 1
                /\ CountMsg(mk.res.diags, "is not a subrange of") = 1

\* C4: a range constraint, in either form and either direction, over a mark
\* that dereferences to an integer type with bounds [A,B] succeeds with the
\* constraint's bounds and the base's direction when it has the base's
\* direction and A <= lo <= hi <= B, and fails with exactly one "is not a
\* subrange of" error when lo < A or hi > B or the directions differ.
C4_SubrangeEitherDirection == SubrangeRule(Dirs)

\* the number of queries svc that r made for nodes of kind n
RECURSIVE CountCalls(_, _, _)
CountCalls(calls, svc, n) ==
    IF calls = <<>> THEN 0
    ELSE (IF Head(calls).svc = svc /\ Head(calls).id.n = n THEN 1 ELSE 0)
         + CountCalls(Tail(calls), svc, n)

\* C10: the type computation of an array type declaration attempts every
\* index position before it returns: the lowered form of each of its index
\* positions is asked for, whatever happened at the positions before it.
C10_EveryIndexAttempted ==
    (mk.op = "make" /\ mk.id.n = "TypeDecl" /\ mk.id.ok /\ mk.id.data.d = "Array") =>
        CountCalls(mk.res.calls, "hir", "ArrayTypeIndex") = Len(mk.id.data.index_ids)

\* an integer literal was computed
IntLiteralComputed ==
    /\ mk.op = "make"
    /\ mk.id.n = "Expr" /\ mk.id.ok
    /\ mk.id.data = "IntegerLiteral"

\* the context supplies an expected type, and it dereferences to an integer type
CtxIsInt(id) ==
    /\ id.ctx.st = "ok" /\ id.ctx.ty /= <<>>
    /\ deref_named_type(id.ctx.ty[1]).st = "ok"
    /\ deref_named_type(id.ctx.ty[1]).v.k = "Int"

\* the context lookup fails, or the dereference of the expected type does not
\* return a type (it fails, or it does not return)
CtxUnresolved(id) ==
    \/ id.ctx.st /= "ok"
    \/ id.ctx.ty /= <<>> /\ deref_named_type(id.ctx.ty[1]).st /= "ok"

AttachedTypeRule ==
    mk.id.ty /= <<>> =>
        /\ mk.res.st = "ok" /\ mk.res.v = mk.id.ty[1]
        /\ ~Called(mk.res, "type_context_resolved", mk.id)

ContextTypeRule ==
    (mk.id.ty = <<>> /\ CtxIsInt(mk.id)) =>
        /\ mk.res.st = "ok" /\ mk.res.v = mk.id.ctx.ty[1]

CannotInfer ==
    /\ mk.res.st = "err"
    /\ CountErrors(mk.res.diags) = 1
    /\ CountMsg(mk.res.diags, "cannot infer type from context") = 1

\* C8 as stated: an integer literal with an attached type has that type and
\* the context is not consulted; otherwise, with a context type that
\* dereferences to an integer type, it has the context's type; in every other
\* case the computation fails with exactly one "cannot infer type" error.
C8_AsStated ==
    IntLiteralComputed =>
        /\ AttachedTypeRule
        /\ ContextTypeRule
        /\ (mk.id.ty = <<>> /\ ~CtxIsInt(mk.id)) => CannotInfer

\* C8 as amended: as C8, but the "cannot infer type" error is emitted only
\* when the context lookup succeeds and gives no type or a type whose
\* dereference succeeds with a type that is not an integer type; when the
\* lookup fails or the dereference returns no type, no type results and no
\* "cannot infer type" error is emitted.
C8_LiteralRule ==
    IntLiteralComputed =>
        /\ AttachedTypeRule
        /\ ContextTypeRule
        /\ (mk.id.ty = <<>> /\ ~CtxIsInt(mk.id) /\ ~CtxUnresolved(mk.id)) => CannotInfer
        /\ (mk.id.ty = <<>> /\ CtxUnresolved(mk.id)) =>
                /\ mk.res.st /= "ok"
                /\ CountMsg(mk.res.diags, "cannot infer type from context") = 0

\* C8's case: a literal with an attached type was computed under a context
\* that expects another type
C8_Witness ==
    /\ IntLiteralComputed
    /\ mk.id.ty = <<IntT>>
    /\ mk.id.ctx = CtxSome(EnumT)
    /\ mk.res.st = "ok" /\ mk.res.v = IntT

\* a subtype indication with a range constraint, in either form, was computed
RangeConComputed ==
    /\ mk.op = "make"
    /\ mk.id.n = "SubtypeInd" /\ mk.id.ok
    /\ mk.id.constraint.c \in {"Range", "Range2"}

\* the positions of the queries to svc among calls
CallsTo(calls, svc) == {i \in DOMAIN calls : calls[i].svc = svc}

\* C11: in the computation of a subtype indication with a range constraint,
\* in either form, the type of the type mark is asked for before any bound is
\* evaluated, and when the type mark dereferences to a type that is not an
\* integer type the computation fails with exactly one "cannot be constrained
\* by range" error and constant evaluation is not invoked, whether or not the
\* bounds can be evaluated.
C11_DerefBeforeBounds ==
    RangeConComputed =>
        /\ \A i \in CallsTo(mk.res.calls, "const_value") :
                \E j \in 1..(i - 1) : mk.res.calls[j] = Call("ty", mk.id.type_mark)
        /\ (/\ MarkType(mk.id.type_mark).st = "ok"
            /\ MarkType(mk.id.type_mark).v.k /= "Int")
           => /\ mk.res.st = "err"
              /\ CountErrors(mk.res.diags) = 1
              /\ CountMsg(mk.res.diags, "cannot be constrained by range") = 1
              /\ CallsTo(mk.res.calls, "const_value") = {}

-----------------------------------------------------------------------------
(* The checking context: TypeckContext and the Typeck dispatch.            *)
(* The effect of a method on the context is the record of whether it set   *)
(* failed, whether it does not return, the diagnostics that reached        *)
(* ctx.sess and the queries it made.                                       *)

NoEff == [fail |-> FALSE, hang |-> FALSE, diags |-> <<>>, calls |-> <<>>]

\* self.failed.set(true)
SetFailed == [NoEff EXCEPT !.fail = TRUE]

\* TypeckContext::emit
emit(diag) == [fail |-> IsError(diag), hang |-> FALSE, diags |-> <<diag>>, calls |-> <<>>]

\* a query of the underlying context ran: what it emitted went to ctx.sess
Ran(r) == [fail |-> FALSE, hang |-> r.st = "hang", diags |-> r.diags, calls |-> r.calls]

\* e1, and then e2 if e1 returns
Then(e1, e2) ==
    Let(e1, LAMBDA a :
        IF a.hang THEN a
        ELSE Let(e2, LAMBDA b :
                [fail |-> a.fail \/ b.fail, hang |-> b.hang,
                 diags |-> a.diags \o b.diags, calls |-> a.calls \o b.calls]))

\* let x = r?; K(x.v) in an impl_typeck_err! rule: when r is not Ok the
\* closure returns Err(()), which typeck forgets
TryCk(r, K(_)) ==
    Let(r, LAMBDA x : IF x.st /= "ok" THEN Ran(x) ELSE Then(Ran(x), K(x.v)))

\* the lowered statements and units
WaveElem(value, after) == [value |-> value, after |-> after]
DelayMechanism(d) == [d |-> d]
RejectInertial(expr) == [d |-> "RejectInertial", expr |-> expr]
TargetName(sig) == [t |-> "Name", sig |-> sig]
TargetAggregate == [t |-> "Aggregate"]
SimpleWave(dm, wave) == [k |-> "SimpleWave", dm |-> dm, wave |-> wave]
SimpleForce(expr) == [k |-> "SimpleForce", expr |-> expr]
SimpleRelease == [k |-> "SimpleRelease"]
CondWave(dm, cond) == [k |-> "CondWave", dm |-> dm, cond |-> cond]
CondForce(cond) == [k |-> "CondForce", cond |-> cond]
SelWave(dm, sel) == [k |-> "SelWave", dm |-> dm, sel |-> sel]
SelForce(sel) == [k |-> "SelForce", sel |-> sel]
SigAssign(target, kind) == [n |-> "SigAssign", ok |-> TRUE, target |-> target, kind |-> kind]
PkgDecl(generics, decls) ==
    [n |-> "PkgDecl", ok |-> TRUE, generics |-> generics, decls |-> decls]
Entity(generics, ports) ==
    [n |-> "Entity", ok |-> TRUE, generics |-> generics, ports |-> ports]
Arch(entity, decls, stmts) ==
    [n |-> "Arch", ok |-> TRUE, entity |-> entity, decls |-> decls, stmts |-> stmts]
ProcessStmt(decls, stmts) ==
    [n |-> "ProcessStmt", ok |-> TRUE, decls |-> decls, stmts |-> stmts]
Lib(pkg_decls, pkg_insts, pkg_bodies, ctxs, entities, archs, cfgs) ==
    [n |-> "Lib", ok |-> TRUE, pkg_decls |-> pkg_decls, pkg_insts |-> pkg_insts,
     pkg_bodies |-> pkg_bodies, ctxs |-> ctxs, entities |-> entities,
     archs |-> archs, cfgs |-> cfgs]
\* a variant of one of the reference enums: GenericRef, DeclInPkgRef,
\* DeclInBlockRef, DeclInProcRef, ConcStmtRef, SeqStmtRef
Variant(enum, variant, id) == [n |-> enum, variant |-> variant, id |-> id]
\* a node of a kind whose rule is unimp!
Node(n) == [n |-> n]

\* the kinds whose impl_typeck! is unimp!(self, id)
UnimpKinds ==
    {"Ctx", "Cfg", "IntfType", "IntfSubprog", "IntfPkg", "IntfConst", "PkgBody",
     "PkgInst", "ConstDecl", "SharedVarDecl", "VarDecl", "FileDecl", "BlockStmt",
     "ConcProcCallStmt", "ConcAssertStmt", "ConcSigAssignStmt", "CompInstStmt",
     "ForGenStmt", "IfGenStmt", "CaseGenStmt", "WaitStmt", "AssertStmt",
     "ReportStmt", "VarAssignStmt", "ProcCallStmt", "IfStmt", "CaseStmt",
     "LoopStmt", "NextStmt", "ExitStmt", "ReturnStmt"}

\* the enums of references, whose impl_typeck! matches on the variant
RefEnums ==
    {"GenericRef", "DeclInPkgRef", "DeclInBlockRef", "DeclInProcRef",
     "ConcStmtRef", "SeqStmtRef"}

\* the kinds that have a type rule: Typeck is the blanket impl over NodeMaker
MakerKinds ==
    {"TypeMark", "SubtypeInd", "TypeDecl", "SubtypeDecl", "SubtypeDeclCyc",
     "SignalDecl", "IntfSignal", "Expr", "TypedNode", "Signal"}

\* unimp!
unimp == emit(DiagBuilder2("Bug", "not implemented"))

\* TypeckContext::typeck_delay_mechanism
typeck_delay_mechanism(node) == NoEff

\* TypeckContext::typeck_node
typeck_node(id, exp) ==
    Let(ty(id), LAMBDA act :
        IF act.st = "ok"
        THEN IF act.v /= exp
             THEN Then(Ran(act), emit(DiagBuilder2("Error", "typecheck failed")))
             ELSE Ran(act)
        ELSE Then(Ran(act), SetFailed))

\* TypeckContext::typeck_wave_elem
typeck_wave_elem(node, exp) ==
    IF node.value /= <<>> THEN typeck_node(node.value[1], exp) ELSE NoEff

RECURSIVE typeck_waveform(_, _)
\* TypeckContext::typeck_waveform
typeck_waveform(node, exp) ==
    IF node = <<>> THEN NoEff
    ELSE Then(typeck_wave_elem(Head(node), exp), typeck_waveform(Tail(node), exp))

\* the match on hir.kind of the signal assignment rule (typeck.rs 424-447)
SigAssignKind(kind, lhs_ty) ==
    CASE kind.k = "SimpleWave" ->
            Then(typeck_delay_mechanism(kind.dm), typeck_waveform(kind.wave, lhs_ty))
      [] kind.k = "SimpleForce" -> NoEff
      [] kind.k = "SimpleRelease" -> NoEff
      [] kind.k = "CondWave" -> typeck_delay_mechanism(kind.dm)
      [] kind.k = "CondForce" -> NoEff
      [] kind.k = "SelWave" -> typeck_delay_mechanism(kind.dm)
      [] kind.k = "SelForce" -> NoEff

\* impl_typeck_err! SigAssignStmtRef
TypeckSigAssign(id) ==
    TryCk(hir(id), LAMBDA h :
        IF h.target.t = "Name"
        THEN TryCk(ty(h.target.sig), LAMBDA lhs_ty : SigAssignKind(h.kind, lhs_ty))
        ELSE \* unimpmsg!
             emit(DiagBuilder2("Bug", "not implemented")))

\* impl Typeck<I> for every I with a type rule
TypeckMaker(id) ==
    Let(make(id), LAMBDA r : IF r.st = "ok" THEN Ran(r) ELSE Then(Ran(r), SetFailed))

RECURSIVE typeck(_), typeck_slice(_)

\* TypeckContext::typeck_slice, and the for loops over the children of a unit
typeck_slice(ids) ==
    IF ids = <<>> THEN NoEff ELSE Then(typeck(Head(ids)), typeck_slice(Tail(ids)))

\* impl_typeck_err! LibRef
TypeckLib(id) ==
    TryCk(hir(id), LAMBDA h :
        Then(typeck_slice(h.pkg_decls),
        Then(typeck_slice(h.pkg_insts),
        Then(typeck_slice(h.pkg_bodies),
        Then(typeck_slice(h.ctxs),
        Then(typeck_slice(h.entities),
        Then(typeck_slice(h.archs), typeck_slice(h.cfgs))))))))

\* impl_typeck_err! PkgDeclRef
TypeckPkgDecl(id) ==
    TryCk(hir(id), LAMBDA h : Then(typeck_slice(h.generics), typeck_slice(h.decls)))

\* impl_typeck_err! EntityRef
TypeckEntity(id) ==
    TryCk(hir(id), LAMBDA h : Then(typeck_slice(h.generics), typeck_slice(h.ports)))

\* impl_typeck_err! ArchRef
TypeckArch(id) ==
    TryCk(hir(id), LAMBDA h :
        Then(typeck(h.entity), Then(typeck_slice(h.decls), typeck_slice(h.stmts))))

\* impl_typeck_err! ProcessStmtRef
TypeckProcessStmt(id) ==
    TryCk(hir(id), LAMBDA h : Then(typeck_slice(h.decls), typeck_slice(h.stmts)))

\* Typeck::typeck, by the kind of the id
typeck(id) ==
    CASE id.n = "Lib" -> TypeckLib(id)
      [] id.n = "PkgDecl" -> TypeckPkgDecl(id)
      [] id.n = "Entity" -> TypeckEntity(id)
      [] id.n = "Arch" -> TypeckArch(id)
      [] id.n = "ProcessStmt" -> TypeckProcessStmt(id)
      [] id.n = "SigAssign" -> TypeckSigAssign(id)
      [] id.n = "NullStmt" -> NoEff
      [] id.n \in RefEnums -> typeck(id.id)
      [] id.n \in UnimpKinds -> unimp
      [] id.n \in MakerKinds -> TypeckMaker(id)

-----------------------------------------------------------------------------
(* The nodes a checking session is given *)

\* the sequences of up to MaxSibs different elements of S
Lists(S) ==
    {l \in UNION {[1..len -> S] : len \in 0..MaxSibs} :
        \A i, j \in DOMAIN l : l[i] = l[j] => i = j}

\* the elements of l that are in S, in order
Only(l, S) == SelectSeq(l, LAMBDA x : x \in S)

\* an integer literal of type IntT, one of type EnumT, one whose type cannot
\* be inferred and an expression of a form without a rule
LitInt == Expr("IntegerLiteral", <<IntT>>, CtxNone)
LitEnum == Expr("IntegerLiteral", <<EnumT>>, CtxNone)
LitNoCtx == Expr("IntegerLiteral", <<>>, CtxNone)
OtherExpr == Expr("Other", <<>>, CtxNone)
SessExprs == {LitInt, LitEnum, LitNoCtx, OtherExpr}

\* subtype indications: GoodMark range 1 to MaxVal-1 (IntT), and one whose
\* range is not within GoodMark
SubtyIntT ==
    SubtypeInd(GoodMark, ConRange2("to", ConstExpr(KInt(1)), ConstExpr(KInt(MaxVal - 1))))
SubtyOutOfRange ==
    SubtypeInd(GoodMark, ConRange2("to", ConstExpr(KInt(0)), ConstExpr(KInt(1))))
SubtyAboveRange ==
    SubtypeInd(GoodMark, ConRange2("to", ConstExpr(KInt(1)), ConstExpr(KInt(MaxVal))))
SubtyArrayCon == SubtypeInd(GoodMark, ConArray)

\* signals of type IntT, two signals whose type computation fails and one
\* that has no hir
SigInt == SignalRef("Decl", SignalDecl(SubtyIntT))
SigPort == SignalRef("Intf", IntfSignal(SubtyIntT))
SigBad == SignalRef("Decl", SignalDecl(SubtyOutOfRange))
SigAbove == SignalRef("Decl", SignalDecl(SubtyAboveRange))
SigLost == SignalRef("Decl", Lost("SignalDecl"))

Waves ==
    {<<WaveElem(<<LitInt>>, <<>>)>>,
     <<WaveElem(<<LitEnum>>, <<>>)>>,
     <<WaveElem(<<LitInt>>, <<LitEnum>>), WaveElem(<<LitEnum>>, <<>>)>>,
     <<WaveElem(<<>>, <<>>)>>}

DelayMechanisms == {DelayMechanism("Transport"), RejectInertial(LitEnum)}

\* the kinds of signal assignment; a conditional or selected assignment
\* holds one waveform (or forced expression) per choice
SigAssignKinds ==
    {SimpleWave(dm, w) : dm \in DelayMechanisms, w \in Waves}
    \cup {SimpleForce(e) : e \in {LitInt, LitEnum}}
    \cup {SimpleRelease}
    \cup {CondWave(DelayMechanism("Transport"), <<w>>) : w \in Waves}
    \cup {CondForce(<<e>>) : e \in {LitInt, LitEnum}}
    \cup {SelWave(DelayMechanism("Transport"), <<w>>) : w \in Waves}
    \cup {SelForce(<<e>>) : e \in {LitInt, LitEnum}}

SigAssigns ==
    {SigAssign(TargetName(SigInt), k) : k \in SigAssignKinds}
    \cup {SigAssign(t, SimpleWave(DelayMechanism("Transport"), <<WaveElem(<<LitInt>>, <<>>)>>)) :
            t \in {TargetName(SigPort), TargetName(SigBad), TargetName(SigLost),
                   TargetAggregate}}
    \cup {Lost("SigAssign")}

\* the children of the units: a valid one and invalid ones of each list
Generics == {Variant("GenericRef", "Const", Node("IntfConst"))}
Ports == {IntfSignal(SubtyIntT), IntfSignal(SubtyOutOfRange)}
DeclsInPkg ==
    {Variant("DeclInPkgRef", "Subtype", SubtypeDecl(SubtyIntT)),
     Variant("DeclInPkgRef", "Subtype", SubtypeDecl(SubtyOutOfRange)),
     Variant("DeclInPkgRef", "Subtype", SubtypeDecl(SubtyArrayCon)),
     Variant("DeclInPkgRef", "Pkg", Lost("PkgDecl"))}
DeclsInBlock ==
    {Variant("DeclInBlockRef", "Signal", SignalDecl(SubtyIntT)),
     Variant("DeclInBlockRef", "Type", TypeDecl(DataNone))}
DeclsInProc ==
    {Variant("DeclInProcRef", "Subtype", SubtypeDecl(SubtyOutOfRange)),
     Variant("DeclInProcRef", "Pkg", Lost("PkgDecl"))}
SeqStmts ==
    {Variant("SeqStmtRef", "Null", Node("NullStmt")),
     Variant("SeqStmtRef", "SigAssign",
        SigAssign(TargetName(SigBad), SimpleRelease)),
     Variant("SeqStmtRef", "SigAssign",
        SigAssign(TargetName(SigAbove), SimpleRelease))}
ConcStmts ==
    {Variant("ConcStmtRef", "Process", ProcessStmt(<<>>, <<>>)),
     Variant("ConcStmtRef", "Process", Lost("ProcessStmt"))}

PkgDecls ==
    {PkgDecl(Only(l, Generics), Only(l, DeclsInPkg)) : l \in Lists(Generics \cup DeclsInPkg)}
    \cup {Lost("PkgDecl")}
Entities ==
    {Entity(Only(l, Generics), Only(l, Ports)) : l \in Lists(Generics \cup Ports)}
    \cup {Lost("Entity")}
Archs ==
    {Arch(Entity(<<>>, <<>>), Only(l, DeclsInBlock), Only(l, ConcStmts)) :
        l \in Lists(DeclsInBlock \cup ConcStmts)}
    \cup {Arch(Lost("Entity"), <<>>, <<>>), Lost("Arch")}
ProcessStmts ==
    {ProcessStmt(Only(l, DeclsInProc), Only(l, SeqStmts)) :
        l \in Lists(DeclsInProc \cup SeqStmts)}
    \cup {Lost("ProcessStmt")}
LibPkgDecls == {PkgDecl(<<>>, <<>>), Lost("PkgDecl")}
LibEntities == {Lost("Entity")}
LibArchs == {Lost("Arch")}
LibCfgs == {Node("Cfg")}
Libs ==
    {Lib(Only(l, LibPkgDecls), <<>>, <<>>, <<>>, Only(l, LibEntities),
         Only(l, LibArchs), Only(l, LibCfgs)) :
        l \in Lists(LibPkgDecls \cup LibEntities \cup LibArchs \cup LibCfgs)}
    \cup {Lib(<<>>, <<Node("PkgInst")>>, <<Node("PkgBody")>>, <<Node("Ctx")>>, <<>>, <<>>, <<>>),
          Lost("Lib")}

Units == Libs \cup PkgDecls \cup Entities \cup Archs \cup ProcessStmts

\* the declarations that are checked by their type rule
MakerDecls ==
    {SubtypeDecl(SubtyIntT), SubtypeDecl(SubtyOutOfRange), TypeDecl(DataNone),
     TypeDecl(DataEnum), Lost("TypeDecl"), SignalDecl(SubtyIntT)}

TypeckInputs ==
    Units \cup SigAssigns \cup MakerDecls \cup {Node(n) : n \in UnimpKinds}
    \cup {Node("NullStmt")}

-----------------------------------------------------------------------------
(* The operations on a checking context *)

\* Applied with the outcome of the operation stored in failed
AppliedStore(op, id, eff) ==
    /\ ~eff.hang
    /\ failed' = eff.fail
    /\ diags' = diags \o eff.diags
    /\ last' = [op |-> op, id |-> id, eff |-> eff]
    /\ nops' = nops + 1
    /\ UNCHANGED <<pc, result>>

\* the context after an operation op on id with effect eff
Applied(op, id, eff) ==
    /\ ~eff.hang
    /\ failed' = (failed \/ eff.fail)
    /\ diags' = diags \o eff.diags
    /\ last' = [op |-> op, id |-> id, eff |-> eff]
    /\ nops' = nops + 1
    /\ UNCHANGED <<pc, result>>

\* an operation op on id, whose effect is e, on an open context
Apply(op, id, e) ==
    /\ pc = "open"
    /\ nops < MaxOps
    /\ \E eff \in {e} : Applied(op, id, eff)

\* TypeckContext::new: a new session begins
New ==
    /\ pc = "finished"
    /\ failed' = FALSE
    /\ diags' = <<>>
    /\ pc' = "open"
    /\ result' = TRUE
    /\ last' = NoOp
    /\ nops' = 0
    /\ UNCHANGED <<mk, derefVars, arenaVars>>

\* TypeckContext::finish
Finish ==
    /\ pc = "open"
    /\ pc' = "finished"
    /\ result' = ~failed
    /\ UNCHANGED <<failed, diags, last, nops, mk, derefVars, arenaVars>>

\* TypeckContext::emit, called by a client
Emit ==
    /\ \E sev \in Severities :
          Apply("emit", sev, emit(DiagBuilder2(sev, "client")))
    /\ UNCHANGED <<mk, derefVars, arenaVars>>

\* Typeck::typeck
Typeck ==
    /\ \E id \in TypeckInputs : Apply("typeck", id, typeck(id))
    /\ UNCHANGED <<mk, derefVars, arenaVars>>

\* TypeckContext::typeck_slice
TypeckSlice ==
    /\ \E ids \in Lists(MakerDecls) : Apply("typeck_slice", ids, typeck_slice(ids))
    /\ UNCHANGED <<mk, derefVars, arenaVars>>

\* TypeckContext::typeck_node
TypeckNode ==
    /\ \E id \in SessExprs \cup {SigInt, SigBad}, exp \in {IntT, EnumT} :
          Apply("typeck_node", id, typeck_node(id, exp))
    /\ UNCHANGED <<mk, derefVars, arenaVars>>

Next == New \/ Finish \/ Emit \/ Typeck \/ TypeckSlice \/ TypeckNode

Spec == Init /\ [][Next]_vars

-----------------------------------------------------------------------------
(* Properties of the checking context, checked under Spec *)

\* C1: finish() returns true if and only if no diagnostic of severity Error
\* or above was emitted during the session, through the context's emit or
\* through the underlying context while a type was computed.
C1_FinishIffNoError ==
    pc = "finished" => (result = TRUE <=> CountErrors(diags) = 0)

UnitKinds == {"Lib", "PkgDecl", "Entity", "Arch", "ProcessStmt"}

\* the children of a unit that are checked one after the other
Siblings(u) ==
    CASE u.n = "Lib" ->
            u.pkg_decls \o u.pkg_insts \o u.pkg_bodies \o u.ctxs \o u.entities
            \o u.archs \o u.cfgs
      [] u.n = "PkgDecl" -> u.generics \o u.decls
      [] u.n = "Entity" -> u.generics \o u.ports
      [] u.n = "Arch" -> <<u.entity>> \o u.decls \o u.stmts
      [] u.n = "ProcessStmt" -> u.decls \o u.stmts

\* a child that, checked on its own, yields exactly one error diagnostic
Invalid(s) == CountErrors(typeck(s).diags) = 1
\* a child that, checked on its own, yields no diagnostic and no failure
Valid(s) == typeck(s).diags = <<>> /\ ~typeck(s).fail

\* exactly two children of u are invalid, independently, and the others valid
TwoInvalid(u) ==
    /\ Cardinality({i \in DOMAIN Siblings(u) : Invalid(Siblings(u)[i])}) = 2
    /\ \A i \in DOMAIN Siblings(u) : Invalid(Siblings(u)[i]) \/ Valid(Siblings(u)[i])

\* C2: checking a unit with two independently invalid children yields
\* finish() = false and exactly two error diagnostics.
C2_TwoInvalidTwoErrors ==
    (/\ pc = "finished" /\ nops = 1
     /\ last.op = "typeck"
     /\ last.id.n \in UnitKinds /\ last.id.ok
     /\ TwoInvalid(last.id))
    => (result = FALSE /\ CountErrors(diags) = 2)

\* the check of id is left early: its lowered representation cannot be looked
\* up, or the type of the target of the signal assignment cannot be computed
Aborts(id) ==
    /\ id.n \in UnitKinds \cup {"SigAssign"}
    /\ \/ hir(id).st = "err"
       \/ /\ id.n = "SigAssign"
          /\ id.target.t = "Name"
          /\ ty(id.target.sig).st = "err"

\* C3: after the check of a library, package declaration, entity,
\* architecture, process or signal assignment that is left early, finish()
\* returns false.
C3_AbortMarksFailed ==
    (pc = "finished" /\ last.op = "typeck" /\ Aborts(last.id)) => result = FALSE

\* the value expressions of a waveform
WaveValues(wave) == {wave[i].value[1] : i \in {j \in DOMAIN wave : wave[j].value /= <<>>}}
\* the delay expressions of a waveform
WaveAfters(wave) == {wave[i].after[1] : i \in {j \in DOMAIN wave : wave[j].after /= <<>>}}

\* the value expressions of a signal assignment of the given kind
ValueExprs(kind) ==
    CASE kind.k = "SimpleWave" -> WaveValues(kind.wave)
      [] kind.k = "SimpleForce" -> {kind.expr}
      [] kind.k = "SimpleRelease" -> {}
      [] kind.k = "CondWave" -> UNION {WaveValues(kind.cond[i]) : i \in DOMAIN kind.cond}
      [] kind.k = "CondForce" -> {kind.cond[i] : i \in DOMAIN kind.cond}
      [] kind.k = "SelWave" -> UNION {WaveValues(kind.sel[i]) : i \in DOMAIN kind.sel}
      [] kind.k = "SelForce" -> {kind.sel[i] : i \in DOMAIN kind.sel}

\* the time expressions of a signal assignment of the given kind
TimeExprs(kind) ==
    (IF kind.k \in {"SimpleWave", "CondWave", "SelWave"} /\ kind.dm.d = "RejectInertial"
     THEN {kind.dm.expr} ELSE {})
    \cup (CASE kind.k = "SimpleWave" -> WaveAfters(kind.wave)
            [] kind.k = "CondWave" -> UNION {WaveAfters(kind.cond[i]) : i \in DOMAIN kind.cond}
            [] kind.k = "SelWave" -> UNION {WaveAfters(kind.sel[i]) : i \in DOMAIN kind.sel}
            [] OTHER -> {})

\* a signal assignment to a named signal whose type is computed was checked
SigAssignChecked ==
    /\ last.op = "typeck"
    /\ last.id.n = "SigAssign" /\ last.id.ok
    /\ last.id.target.t = "Name"
    /\ ty(last.id.target.sig).st = "ok"

\* C6: after the check of a signal assignment of any kind to a named signal,
\* if the type of one of its value expressions differs from the type of the
\* target, a type mismatch error was emitted and finish() returns false.
C6_ValuesChecked ==
    (/\ pc = "finished"
     /\ SigAssignChecked
     /\ \E e \in ValueExprs(last.id.kind) :
            ty(e).st = "ok" /\ ty(e).v /= ty(last.id.target.sig).v)
    => (/\ CountMsg(last.eff.diags, "typecheck failed") >= 1
        /\ result = FALSE)

\* the bug diagnostics among ds
RECURSIVE CountBugs(_)
CountBugs(ds) ==
    IF ds = <<>> THEN 0
    ELSE (IF Head(ds).severity = "Bug" THEN 1 ELSE 0) + CountBugs(Tail(ds))

\* C7: the check of a statement either applies a rule to it and to each of
\* its expressions, or emits exactly one "not implemented" bug diagnostic,
\* which fails the session; only the null statement is accepted with nothing
\* checked and nothing emitted.
C7_NoSilentGap ==
    (/\ last.op = "typeck"
     /\ \/ last.id.n \in UnimpKinds \cup {"NullStmt"}
        \/ SigAssignChecked
        \/ last.id.n = "SigAssign" /\ last.id.ok /\ last.id.target.t = "Aggregate")
    => \/ last.id.n = "NullStmt" /\ last.eff.diags = <<>>
       \/ CountBugs(last.eff.diags) = 1 /\ failed
       \/ /\ last.id.n = "SigAssign"
          /\ CountBugs(last.eff.diags) = 0
          /\ \A e \in ValueExprs(last.id.kind) \cup TimeExprs(last.id.kind) :
                Called(last.eff, "ty", e)

\* a step of TypeckContext::new: a finished context is replaced by a new one
IsNew == pc = "finished" /\ pc' = "open"

\* C12: failed is false when a context is created, no operation on a context
\* resets it to false once it is true, and finish() returns false when it is
\* true, however many checks succeeded after the one that set it.
C12_FailedMonotone ==
    /\ ~failed
    /\ [][IsNew => ~failed']_vars
    /\ [][(failed /\ ~IsNew) => failed']_vars
    /\ [](pc = "finished" /\ failed => result = FALSE)

\* C12's case: a check that succeeds without a diagnostic follows an operation
\* that set failed, and finish() has returned false
C12_Witness ==
    /\ pc = "finished"
    /\ nops = 2
    /\ last.op = "typeck"
    /\ ~last.eff.fail /\ last.eff.diags = <<>>
    /\ failed
    /\ result = FALSE

-----------------------------------------------------------------------------
(* deref_named_type, one recursion at a time.  A frame of the recursion     *)
(* holds nothing but the return to its caller, so the active call is the    *)
(* whole state of the computation.                                          *)

\* the types deref_named_type is called with
DerefInputs == CtxTypes

\* a client calls deref_named_type(t)
DerefCall ==
    /\ dpc = "idle"
    /\ \E t \in DerefInputs :
        /\ darg' = t
        /\ dty' = t
    /\ dpc' = "run"
    /\ UNCHANGED <<dres, sessionVars, mk, arenaVars>>

\* &Ty::Named(_, tmr): let inner = self.ty(tmr)?; self.deref_named_type(inner)
DerefStep ==
    /\ dpc = "run"
    /\ dty.k = "Named"
    /\ \E r \in {ty(dty.tm)} :
        CASE r.st = "ok" -> dty' = r.v /\ UNCHANGED <<dpc, dres>>
          [] r.st = "err" -> dpc' = "ret" /\ dres' = r /\ UNCHANGED dty
          [] r.st = "hang" -> UNCHANGED <<dpc, dty, dres>>
    /\ UNCHANGED <<darg, sessionVars, mk, arenaVars>>

\* other => Ok(other)
DerefReturn ==
    /\ dpc = "run"
    /\ dty.k /= "Named"
    /\ dpc' = "ret"
    /\ dres' = Ok(dty)
    /\ UNCHANGED <<darg, dty, sessionVars, mk, arenaVars>>

DerefNext == DerefCall \/ DerefStep \/ DerefReturn

\* a call that can take a step takes it: the program runs
DerefSpec ==
    Init /\ [][DerefNext]_vars /\ WF_vars(DerefStep) /\ WF_vars(DerefReturn)

\* C5: deref_named_type always terminates: every call returns, and what it
\* returns is a failure or a type that is not Named, also on a Named chain
\* that leads back to itself.
C5_DerefTerminates ==
    /\ [](dpc = "ret" /\ dres.st = "ok" => dres.v.k /= "Named")
    /\ (dpc = "run") ~> (dpc = "ret")

-----------------------------------------------------------------------------
(* The type arena: TypeArena and alloc_owned *)

\* alloc_owned is called at most MaxAllocs times
MaxAllocs == 3
\* the values of a variant of OwnedType are 1..MaxNode
MaxNode == 2

ParamVariants ==
    {"IntegerBasetype", "IntegerSubtype", "FloatingBasetype", "FloatingSubtype",
     "EnumBasetype", "EnumSubtype", "PhysicalBasetype", "PhysicalSubtype", "Access"}
StaticVariants == {"Null", "UniversalInteger", "UniversalReal"}

OwnedType(variant, t) == [variant |-> variant, t |-> t]

OwnedTypes ==
    {OwnedType(v, t) : v \in ParamVariants, t \in 1..MaxNode}
    \cup {OwnedType(v, 0) : v \in StaticVariants}

\* a reference into the typed arena of a field, and a reference to a static
ArenaRef(field, idx) == [at |-> "arena", field |-> field, idx |-> idx]
StaticRef(name) == [at |-> "static", name |-> name]

\* the typed arena that holds the nodes of a variant: the Alloc<T> impls that
\* make_arenas! generates, one per field
ArenaField(variant) ==
    CASE variant = "IntegerBasetype" -> "integer_basetype"
      [] variant = "IntegerSubtype" -> "integer_subtype"
      [] variant = "FloatingBasetype" -> "floating_basetype"
      [] variant = "FloatingSubtype" -> "floating_subtype"
      [] variant = "EnumBasetype" -> "enum_basetype"
      [] variant = "EnumSubtype" -> "enum_subtype"
      [] variant = "PhysicalBasetype" -> "physical_basetype"
      [] variant = "PhysicalSubtype" -> "physical_subtype"
      [] variant = "Access" -> "access"

\* Alloc::alloc of a typed arena: the node is stored behind the nodes the
\* arena holds, and the reference to it is returned
alloc(a, variant, t) ==
    [arena |-> [a EXCEPT ![ArenaField(variant)] = Append(@, t)],
     ref |-> ArenaRef(ArenaField(variant), Len(a[ArenaField(variant)]) + 1)]

\* alloc_owned with the access type not stored: the static null type is returned
alloc_owned_access_static(a, value) ==
    CASE value.variant = "IntegerBasetype" -> alloc(a, value.variant, value.t)
      [] value.variant = "IntegerSubtype" -> alloc(a, value.variant, value.t)
      [] value.variant = "FloatingBasetype" -> alloc(a, value.variant, value.t)
      [] value.variant = "FloatingSubtype" -> alloc(a, value.variant, value.t)
      [] value.variant = "EnumBasetype" -> alloc(a, value.variant, value.t)
      [] value.variant = "EnumSubtype" -> alloc(a, value.variant, value.t)
      [] value.variant = "PhysicalBasetype" -> alloc(a, value.variant, value.t)
      [] value.variant = "PhysicalSubtype" -> alloc(a, value.variant, value.t)
      [] value.variant = "Access" -> [arena |-> a, ref |-> StaticRef("NullType")]
      [] value.variant = "Null" -> [arena |-> a, ref |-> StaticRef("NullType")]
      [] value.variant = "UniversalInteger" ->
            [arena |-> a, ref |-> StaticRef("UniversalIntegerType")]
      [] value.variant = "UniversalReal" ->
            [arena |-> a, ref |-> StaticRef("UniversalRealType")]

\* fn alloc_owned(&'t self, value: OwnedType<'t>) -> &'t Type
alloc_owned(a, value) ==
    CASE value.variant = "IntegerBasetype" -> alloc(a, value.variant, value.t)
      [] value.variant = "IntegerSubtype" -> alloc(a, value.variant, value.t)
      [] value.variant = "FloatingBasetype" -> alloc(a, value.variant, value.t)
      [] value.variant = "FloatingSubtype" -> alloc(a, value.variant, value.t)
      [] value.variant = "EnumBasetype" -> alloc(a, value.variant, value.t)
      [] value.variant = "EnumSubtype" -> alloc(a, value.variant, value.t)
      [] value.variant = "PhysicalBasetype" -> alloc(a, value.variant, value.t)
      [] value.variant = "PhysicalSubtype" -> alloc(a, value.variant, value.t)
      [] value.variant = "Access" -> alloc(a, value.variant, value.t)
      [] value.variant = "Null" -> [arena |-> a, ref |-> StaticRef("NullType")]
      [] value.variant = "UniversalInteger" ->
            [arena |-> a, ref |-> StaticRef("UniversalIntegerType")]
      [] value.variant = "UniversalReal" ->
            [arena |-> a, ref |-> StaticRef("UniversalRealType")]

\* a client calls arena.alloc_owned(value)
AllocOwned ==
    /\ ncalls < MaxAllocs
    /\ \E value \in OwnedTypes :
        \E out \in {alloc_owned(arena, value)} :
            /\ arena' = out.arena
            /\ aref' = [op |-> "alloc_owned", value |-> value, ref |-> out.ref]
    /\ ncalls' = ncalls + 1
    /\ UNCHANGED <<sessionVars, mk, derefVars>>

ArenaNext == AllocOwned

ArenaSpec == Init /\ [][ArenaNext]_vars

\* the number of nodes an arena holds
Nodes(a) ==
    Len(a["integer_basetype"]) + Len(a["integer_subtype"])
    + Len(a["floating_basetype"]) + Len(a["floating_subtype"])
    + Len(a["enum_basetype"]) + Len(a["enum_subtype"])
    + Len(a["physical_basetype"]) + Len(a["physical_subtype"])
    + Len(a["access"])

\* the one static instance of a variant without fields
StaticOf(variant) ==
    CASE variant = "Null" -> StaticRef("NullType")
      [] variant = "UniversalInteger" -> StaticRef("UniversalIntegerType")
      [] variant = "UniversalReal" -> StaticRef("UniversalRealType")

\* C9: every call of alloc_owned leaves each node of the arena where it is and
\* as it is; a call with a variant that has fields adds exactly one node, the
\* value of the call, and returns the reference to it; a call with Null,
\* UniversalInteger or UniversalReal adds no node and returns the one static
\* instance of the variant.
C9_ArenaAppendOnly ==
    [][/\ \A f \in ArenaFields : \A i \in DOMAIN arena[f] :
            /\ i \in DOMAIN arena'[f]
            /\ arena'[f][i] = arena[f][i]
       /\ aref'.value.variant \in ParamVariants =>
            /\ Nodes(arena') = Nodes(arena) + 1
            /\ aref'.ref.at = "arena"
            /\ aref'.ref.idx = Len(arena[aref'.ref.field]) + 1
            /\ aref'.ref.idx \in DOMAIN arena'[aref'.ref.field]
            /\ arena'[aref'.ref.field][aref'.ref.idx] = aref'.value.t
       /\ aref'.value.variant \in StaticVariants =>
            /\ arena' = arena
            /\ aref'.ref = StaticOf(aref'.value.variant)
      ]_arenaVars

\* C9's case: a static instance was asked for of an arena that holds two
\* nodes of one variant
C9_Witness ==
    /\ aref.op = "alloc_owned"
    /\ aref.value.variant = "Null"
    /\ aref.ref = StaticRef("NullType")
    /\ Len(arena["access"]) = 2

=============================================================================
